---------------------------- MODULE Spec2Model ----------------------------
(***************************************************************************)
(* A model of jetstream.py: the two loaders (GFSJetStreamData.load and     *)
(* ERAJetStreamData.load), the rendering of a map, and the two batch       *)
(* drivers plot_gfs_average and plot_era_average.                          *)
(*                                                                         *)
(* Numbers.  Longitudes and latitudes are whole degrees.  Wind components  *)
(* are whole m/s.  A float is modelled in fixed point: a square root is    *)
(* resolved to 1/Scale, and a wind speed is a whole number of              *)
(* 1/(10*Scale) km/h, so that 3.6 * sqrt(s) is 36 * ISqrt(s * Scale^2).    *)
(* A division of a wind speed rounds down to that resolution.              *)
(***************************************************************************)
EXTENDS Integers, Sequences, FiniteSets, TLC

VARIABLES
    driver,      \* which batch driver runs: "era" or "gfs"
    pc,          \* the driver's position
    era_file,    \* contents of 'era-december-averages.nc' (environment)
    gfs_remote,  \* contents of the remote GFS datasets (environment)
    year,        \* plot_era_average: the loop variable
    data,        \* plot_era_average: the local `data`
    day,         \* plot_gfs_average: the loop variable of the first loop
    streamdata,  \* plot_gfs_average: the list `streamdata`
    k,           \* plot_gfs_average: position of the second loop in streamdata
    mymap,       \* the local `mymap` of either driver
    figures,     \* pyplot's open figures, oldest first
    written,     \* the files saved so far, in order
    log,         \* history: the steps completed so far, in order
    failed       \* history: the step that raised, or NoFailure

vars == <<driver, pc, era_file, gfs_remote, year, data, day, streamdata, k,
          mymap, figures, written, log, failed>>

---------------------------------------------------------------------------
(* Bounds of the model. *)

\* wind components of the environment's data lie in -MaxWind .. MaxWind
MaxWind == 2

\* resolution of the fixed-point square root
Scale == 100

(* Program constants. *)

FirstYear == 1979
StopYear == 2014
FirstDay == 1
StopDay == 17
Lon0 == 180
Cyclic == 360

None == [none |-> TRUE]
NoFailure == [step |-> "none", at |-> 0]

---------------------------------------------------------------------------
(* Arithmetic. *)

Abs(x) == IF x < 0 THEN -x ELSE x

\* the largest r in lo..hi with r^2 <= n, by bisection (lo^2 <= n < (hi+1)^2)
RECURSIVE ISqrtIn(_, _, _)
ISqrtIn(lo, hi, n) ==
    IF lo >= hi THEN lo
    ELSE LET mid == (lo + hi + 1) \div 2
         IN  IF mid * mid <= n THEN ISqrtIn(mid, hi, n)
             ELSE ISqrtIn(lo, mid - 1, n)

\* the least power of two h * 2^m whose square exceeds n
RECURSIVE AboveRoot(_, _)
AboveRoot(h, n) == IF h * h > n THEN h ELSE AboveRoot(2 * h, n)

\* numpy.sqrt at the model's resolution: the largest r with r^2 <= n
ISqrt(n) == ISqrtIn(0, AboveRoot(1, n), n)

\* numpy.sqrt(x) of a value x, in units of 1/Scale
Sqrt(x) == ISqrt(x * Scale * Scale)

\* 3.6 * r for r in units of 1/Scale, in units of 1/(10*Scale)
TimesThreePointSix(r) == 36 * r


---------------------------------------------------------------------------
(* Sequences and two-dimensional arrays (a sequence of rows). *)

\* a[lo:hi] of Python, on a 1-based sequence: positions lo+1 .. hi
Slice(s, lo, hi) == SubSeq(s, lo + 1, hi)

RowAdd(r1, r2) == [j \in 1..Len(r1) |-> r1[j] + r2[j]]

\* a += b on arrays of one shape
ArrayAdd(a, b) == [i \in 1..Len(a) |-> RowAdd(a[i], b[i])]

\* a / n at the model's resolution
ArrayDiv(a, n) == [i \in 1..Len(a) |-> [j \in 1..Len(a[i]) |-> a[i][j] \div n]]

\* '{}'.format(n) of a non-negative integer
Format(n) == ToString(n)

\* '{0:02d}'.format(n) of a non-negative integer
Format02d(n) == IF n < 10 THEN "0" \o ToString(n) ELSE ToString(n)

---------------------------------------------------------------------------
(* mpl_toolkits.basemap.shiftgrid(lon0, datain, lonsin, start, cyclic),    *)
(* as the loaders call it: start=False, cyclic=360.                        *)

\* numpy.argmin(numpy.fabs(lonsin - lon0)): the first position (0-based) of
\* the longitude nearest to lon0
ArgMinDist(lonsin, lon0) ==
    (CHOOSE p \in 1..Len(lonsin) :
        /\ \A q \in 1..Len(lonsin) : Abs(lonsin[p] - lon0) <= Abs(lonsin[q] - lon0)
        /\ \A q \in 1..(p - 1) : Abs(lonsin[q] - lon0) > Abs(lonsin[p] - lon0)) - 1

\* 1 when the grid repeats its first longitude as its last (the cyclic
\* point), whose duplicate column is dropped; else 0
StartIdx(lonsin) ==
    IF Abs(lonsin[Len(lonsin)] - lonsin[1] - Cyclic) > 0 THEN 0 ELSE 1

\* shiftgrid raises ValueError('lon0 outside of range of lonsin') otherwise
ShiftGridOk(lon0, lonsin) ==
    /\ Len(lonsin) > 0
    /\ ~(lon0 < lonsin[1] \/ lon0 > lonsin[Len(lonsin)])

\* a shift that renames the longitudes above 180 where they stand (the
\* loader's commented-out line) and so leaves them out of order
ShiftLons_InPlace(lon0, lonsin) ==
    [j \in 1..Len(lonsin) |->
        IF lonsin[j] > 180 THEN lonsin[j] - Cyclic ELSE lonsin[j]]

\* lonsout, for start=False
ShiftLons(lon0, lonsin) ==
    LET i0 == ArgMinDist(lonsin, lon0)
        n  == Len(lonsin)
        s  == StartIdx(lonsin)
    IN  [j \in 1..(n - i0) |-> Slice(lonsin, i0, n)[j] - Cyclic]
            \o Slice(lonsin, s, i0 + s)

\* a shift that drops the cyclic point's column from the data and keeps it
\* in the longitudes
ShiftRow_DropsColumn(lon0, row, lonsin) ==
    LET i0 == ArgMinDist(lonsin, lon0)
        n  == Len(lonsin)
        s  == StartIdx(lonsin)
    IN  Slice(row, i0, n) \o Slice(row, s, i0)

\* one row of dataout
ShiftRow(lon0, row, lonsin) ==
    LET i0 == ArgMinDist(lonsin, lon0)
        n  == Len(lonsin)
        s  == StartIdx(lonsin)
    IN  Slice(row, i0, n) \o Slice(row, s, i0 + s)

\* dataout: every row shifted alike
ShiftData(lon0, datain, lonsin) ==
    [i \in 1..Len(datain) |-> ShiftRow(lon0, datain[i], lonsin)]

---------------------------------------------------------------------------
(* The environment: the data the loaders read.  A dataset is its           *)
(* longitude and latitude axes and the seeds su, sv of its u and v fields. *)

\* a wind component of the field of seed `seed` at row i, column j
Cell(seed, i, j) == ((seed + i + 2 * j) % (2 * MaxWind + 1)) - MaxWind

\* longitude axes in the 0..360 convention: regular with and without 180 on
\* the grid, with the cyclic point, and one that stops short of 180
LonAxes ==
    { <<0, 180>>, <<0, 90, 180, 270>>, <<0, 120, 240>>, <<0, 100, 200, 300>>,
      <<0, 90, 180, 270, 360>>, <<0, 90>> }

LatAxes == { <<60, 0>> }

\* lengths of the file's time axis: too short for the loop, exact, longer
TimeLengths == { StopYear - FirstYear - 15, StopYear - FirstYear,
                 StopYear - FirstYear + 1 }

EraFiles ==
    [lon : LonAxes, lat : LatAxes, nt : TimeLengths,
     su : 0..(2 * MaxWind), sv : {0, MaxWind}]

GfsRemotes ==
    [lon : LonAxes, lat : LatAxes, su : 0..(2 * MaxWind), sv : {0, MaxWind}]

\* data.variables['u'][:][t][i][j], t counted from 0
EraU(f, t, i, j) == Cell(f.su + t, i, j)

\* data.variables['v'][:][t][i][j], t counted from 0
EraV(f, t, i, j) == Cell(f.sv + 2 * t, j, i + 1)

\* the URL plot_gfs_average builds for a day
Url(d) ==
    "http://nomads.ncep.noaa.gov:9090/dods/gfs/gfs201402" \o Format02d(d)
        \o "/gfs_00z_anl"

\* the day of February 2014 whose analysis a URL names (the server's side)
DayOfUrl(url) == CHOOSE d \in 1..28 : Url(d) = url

\* c.ugrdtrop.ugrdtrop[0][0][i][j] of the dataset at url
GfsU(r, url, i, j) == Cell(r.su + DayOfUrl(url), i, j)

\* c.vgrdtrop.vgrdtrop[0][0][i][j] of the dataset at url
GfsV(r, url, i, j) == Cell(r.sv + 2 * DayOfUrl(url), j, i + 1)

---------------------------------------------------------------------------
(* The loaders. *)

\* 3.6 * np.sqrt(u**2, v**2): numpy.sqrt's second positional argument is
\* `out`, the array the result is written to, so v**2 is overwritten and
\* the result is 3.6 * sqrt(u**2)
GFSWindspeed(u, v) == TimesThreePointSix(Sqrt(u * u))

\* 3.6 * np.sqrt(u**2 + v**2)
ERAWindspeed(u, v) == TimesThreePointSix(Sqrt(u * u + v * v))

\* the local `windspeed` of GFSJetStreamData.load before the shift
GFSField(r, url) ==
    [i \in 1..Len(r.lat) |-> [j \in 1..Len(r.lon) |->
        GFSWindspeed(GfsU(r, url, i, j), GfsV(r, url, i, j))]]

GFSLoadOk(r, url) == ShiftGridOk(Lon0, r.lon)

\* the object's fields after GFSJetStreamData(url).load()
GFSLoad(r, url) ==
    [url       |-> url,
     lon       |-> ShiftLons(Lon0, r.lon),
     lat       |-> r.lat,
     windspeed |-> ShiftData(Lon0, GFSField(r, url), r.lon)]

\* windspeed[idx] of Python on an array of n slices raises IndexError
\* unless -n <= idx < n
IndexOk(idx, n) == -n <= idx /\ idx < n

\* the position (0-based) that windspeed[idx] reads: a negative idx counts
\* from the end
PyIndex(idx, n) == IF idx < 0 THEN idx + n ELSE idx

\* an index that counts the years from 1980
ERASliceIndex_From1980(y) == y - (FirstYear + 1)

\* the index of the time slice ERAJetStreamData(y).load() selects
ERASliceIndex(y) == y - FirstYear

\* the local `windspeed` of ERAJetStreamData.load after the slice is taken
\* and before the shift
ERAField(f, y) ==
    LET all == [t \in 0..(f.nt - 1) |-> [i \in 1..Len(f.lat) |->
                   [j \in 1..Len(f.lon) |->
                       ERAWindspeed(EraU(f, t, i, j), EraV(f, t, i, j))]]]
    IN  all[PyIndex(ERASliceIndex(y), f.nt)]

ERALoadOk(f, y) ==
    /\ IndexOk(ERASliceIndex(y), f.nt)
    /\ ShiftGridOk(Lon0, f.lon)

\* the object's fields after ERAJetStreamData(y).load()
ERALoad(f, y) ==
    [year      |-> y,
     lon       |-> ShiftLons(Lon0, f.lon),
     lat       |-> f.lat,
     windspeed |-> ShiftData(Lon0, ERAField(f, y), f.lon)]

---------------------------------------------------------------------------
(* Rendering. *)

\* plt.figure(): the number of the figure it opens
NextFigure(figs) == IF figs = <<>> THEN 1 ELSE figs[Len(figs)] + 1

\* JetStreamMap.render(data, title=title): the figure drawn, as figure num
Render(d, title, num) ==
    [num |-> num, lon |-> d.lon, lat |-> d.lat, mesh |-> d.windspeed,
     vmin |-> 80, vmax |-> 220, title |-> title]

\* JetStreamData.create_map(title): the map object returned
CreateMap(d, title, num) ==
    [lon1 |-> -180, lon2 |-> 180, lat1 |-> -70, lat2 |-> 74,
     fig |-> Render(d, title, num)]

\* mymap.fig.savefig(name): the file written
SavedFile(name, fig) == [name |-> name, fig |-> fig]

---------------------------------------------------------------------------
(* The initial state: a driver is about to start, on some environment. *)

DefaultFile == CHOOSE f \in EraFiles : TRUE
DefaultRemote == CHOOSE r \in GfsRemotes : TRUE

Init ==
    /\ driver \in {"era", "gfs"}
    /\ era_file \in (IF driver = "era" THEN EraFiles ELSE {DefaultFile})
    /\ gfs_remote \in (IF driver = "gfs" THEN GfsRemotes ELSE {DefaultRemote})
    /\ pc = "load"
    /\ year = FirstYear
    /\ day = FirstDay
    /\ data = None
    /\ streamdata = <<>>
    /\ k = 0
    /\ mymap = None
    /\ figures = <<>>
    /\ written = <<>>
    /\ log = <<>>
    /\ failed = NoFailure

---------------------------------------------------------------------------
(* plot_era_average. *)

\* data = ERAJetStreamData(year)
EraLoad ==
    /\ driver = "era" /\ pc = "load"
    /\ ERALoadOk(era_file, year)
    /\ data' = ERALoad(era_file, year)
    /\ log' = Append(log, <<"load", year>>)
    /\ pc' = "create_map"
    /\ UNCHANGED <<driver, era_file, gfs_remote, year, day, streamdata, k,
                   mymap, figures, written, failed>>

\* mymap = data.create_map("December {0}".format(year))
EraCreateMap ==
    /\ driver = "era" /\ pc = "create_map"
    /\ mymap' = CreateMap(data, "December " \o Format(year), NextFigure(figures))
    /\ figures' = Append(figures, NextFigure(figures))
    /\ log' = Append(log, <<"render", year>>)
    /\ pc' = "savefig"
    /\ UNCHANGED <<driver, era_file, gfs_remote, year, data, day, streamdata,
                   k, written, failed>>

\* a save that gives every year's file one name
EraSavefig_OneName ==
    /\ driver = "era" /\ pc = "savefig"
    /\ written' = Append(written, SavedFile("output/era.png", mymap.fig))
    /\ log' = Append(log, <<"save", year>>)
    /\ pc' = "close"
    /\ UNCHANGED <<driver, era_file, gfs_remote, year, data, day, streamdata,
                   k, mymap, figures, failed>>

\* mymap.fig.savefig('output/{}.png'.format(year), dpi=220)
EraSavefig ==
    /\ driver = "era" /\ pc = "savefig"
    /\ written' = Append(written,
                         SavedFile("output/" \o Format(year) \o ".png", mymap.fig))
    /\ log' = Append(log, <<"save", year>>)
    /\ pc' = "close"
    /\ UNCHANGED <<driver, era_file, gfs_remote, year, data, day, streamdata,
                   k, mymap, figures, failed>>

\* a loop that does not close its figure
EraClose_LeavesFigure ==
    /\ driver = "era" /\ pc = "close"
    /\ log' = Append(log, <<"close", year>>)
    /\ year' = year + 1
    /\ pc' = IF year + 1 < StopYear THEN "load" ELSE "done"
    /\ UNCHANGED <<driver, era_file, gfs_remote, data, day, streamdata, k,
                   mymap, figures, written, failed>>

\* plt.close(), which closes the current figure, and the loop's next turn
EraClose ==
    /\ driver = "era" /\ pc = "close"
    /\ figures' = SubSeq(figures, 1, Len(figures) - 1)
    /\ log' = Append(log, <<"close", year>>)
    /\ year' = year + 1
    /\ pc' = IF year + 1 < StopYear THEN "load" ELSE "done"
    /\ UNCHANGED <<driver, era_file, gfs_remote, data, day, streamdata, k,
                   mymap, written, failed>>

\* a loop that catches what a year raises and goes on to the next year
EraRaise_Caught ==
    /\ driver = "era" /\ pc \in {"load", "create_map", "savefig"}
    /\ failed' = [step |-> pc, at |-> year]
    /\ year' = year + 1
    /\ pc' = IF year + 1 < StopYear THEN "load" ELSE "done"
    /\ UNCHANGED <<driver, era_file, gfs_remote, data, day, streamdata, k,
                   mymap, figures, written, log>>

\* the load, the rendering or the save raises: nothing catches it.  A
\* rendering that raises may already have opened its figure.
EraRaise ==
    /\ driver = "era" /\ pc \in {"load", "create_map", "savefig"}
    /\ failed' = [step |-> pc, at |-> year]
    /\ pc' = "raised"
    /\ \E opened \in (IF pc = "create_map" THEN BOOLEAN ELSE {FALSE}) :
          figures' = IF opened THEN Append(figures, NextFigure(figures))
                     ELSE figures
    /\ UNCHANGED <<driver, era_file, gfs_remote, year, data, day, streamdata,
                   k, mymap, written, log>>

---------------------------------------------------------------------------
(* plot_gfs_average. *)

\* a divisor that leaves the first day out of the count
NumDays_OffByOne == StopDay - FirstDay - 1

\* len(days)
NumDays == StopDay - FirstDay

\* streamdata.append(GFSJetStreamData(url of day)), and the loop's next turn
GfsLoad ==
    /\ driver = "gfs" /\ pc = "load"
    /\ GFSLoadOk(gfs_remote, Url(day))
    /\ streamdata' = Append(streamdata, GFSLoad(gfs_remote, Url(day)))
    /\ log' = Append(log, <<"load", day>>)
    /\ day' = day + 1
    /\ pc' = IF day + 1 < StopDay THEN "load" ELSE "accumulate"
    /\ k' = IF day + 1 < StopDay THEN k ELSE 2
    /\ UNCHANGED <<driver, era_file, gfs_remote, year, data, mymap, figures,
                   written, failed>>

\* an accumulation written the wrong way round:
\* data.windspeed += streamdata[0].windspeed
GfsAccumulate_Reversed ==
    /\ driver = "gfs" /\ pc = "accumulate"
    /\ k <= Len(streamdata)
    /\ streamdata' = [streamdata EXCEPT ![k].windspeed =
                          ArrayAdd(@, streamdata[1].windspeed)]
    /\ log' = Append(log, <<"accumulate", k>>)
    /\ k' = k + 1
    /\ UNCHANGED <<driver, pc, era_file, gfs_remote, year, data, day, mymap,
                   figures, written, failed>>

\* streamdata[0].windspeed += data.windspeed, for data = streamdata[k-1]
GfsAccumulate ==
    /\ driver = "gfs" /\ pc = "accumulate"
    /\ k <= Len(streamdata)
    /\ streamdata' = [streamdata EXCEPT ![1].windspeed =
                          ArrayAdd(@, streamdata[k].windspeed)]
    /\ log' = Append(log, <<"accumulate", k>>)
    /\ k' = k + 1
    /\ UNCHANGED <<driver, pc, era_file, gfs_remote, year, data, day, mymap,
                   figures, written, failed>>

\* streamdata[0].windspeed = streamdata[0].windspeed / float(len(days))
GfsDivide ==
    /\ driver = "gfs" /\ pc = "accumulate"
    /\ k > Len(streamdata)
    /\ streamdata' = [streamdata EXCEPT ![1].windspeed = ArrayDiv(@, NumDays)]
    /\ log' = Append(log, <<"divide", NumDays>>)
    /\ pc' = "create_map"
    /\ UNCHANGED <<driver, era_file, gfs_remote, year, data, day, k, mymap,
                   figures, written, failed>>

\* mymap = streamdata[0].create_map("Jet stream in February 2014(GFS averaged)")
GfsCreateMap ==
    /\ driver = "gfs" /\ pc = "create_map"
    /\ mymap' = CreateMap(streamdata[1],
                          "Jet stream in February 2014(GFS averaged)",
                          NextFigure(figures))
    /\ figures' = Append(figures, NextFigure(figures))
    /\ log' = Append(log, <<"render", 0>>)
    /\ pc' = "savefig"
    /\ UNCHANGED <<driver, era_file, gfs_remote, year, data, day, streamdata,
                   k, written, failed>>

\* mymap.fig.savefig('output/gfs.png')
GfsSavefig ==
    /\ driver = "gfs" /\ pc = "savefig"
    /\ written' = Append(written, SavedFile("output/gfs.png", mymap.fig))
    /\ log' = Append(log, <<"save", 0>>)
    /\ pc' = "done"
    /\ UNCHANGED <<driver, era_file, gfs_remote, year, data, day, streamdata,
                   k, mymap, figures, failed>>

\* a first loop that catches what a load raises and goes on to the next day
GfsRaise_Caught ==
    /\ driver = "gfs" /\ pc = "load"
    /\ failed' = [step |-> pc, at |-> day]
    /\ day' = day + 1
    /\ pc' = IF day + 1 < StopDay THEN "load" ELSE "accumulate"
    /\ k' = IF day + 1 < StopDay THEN k ELSE 2
    /\ UNCHANGED <<driver, era_file, gfs_remote, year, data, streamdata,
                   mymap, figures, written, log>>

\* a load, the rendering or the save raises: nothing catches it
GfsRaise ==
    /\ driver = "gfs" /\ pc \in {"load", "create_map", "savefig"}
    /\ failed' = [step |-> pc, at |-> day]
    /\ pc' = "raised"
    /\ UNCHANGED <<driver, era_file, gfs_remote, year, data, day, streamdata,
                   k, mymap, figures, written, log>>

---------------------------------------------------------------------------

Next ==
    \/ EraLoad
    \/ EraCreateMap
    \/ EraSavefig
    \/ EraClose
    \/ EraRaise
    \/ GfsLoad
    \/ GfsAccumulate
    \/ GfsDivide
    \/ GfsCreateMap
    \/ GfsSavefig
    \/ GfsRaise

Spec == Init /\ [][Next]_vars

---------------------------------------------------------------------------
(* What the properties speak of. *)

\* two longitudes name one meridian
SameMeridian(a, b) == (a - b) % 360 = 0

\* w is 3.6 * sqrt(u^2 + v^2) at the model's resolution
IsSpeedOf(w, u, v) ==
    /\ w % 36 = 0
    /\ LET r == w \div 36
       IN  /\ r * r <= (u * u + v * v) * Scale * Scale
           /\ (r + 1) * (r + 1) > (u * u + v * v) * Scale * Scale

\* the averaging of plot_gfs_average has not begun
NotAveraged == \A n \in 1..Len(log) : log[n][1] \notin {"accumulate", "divide"}

\* the GFS objects whose fields are still as load left them
GfsAsLoaded ==
    { d \in 1..Len(streamdata) : driver = "gfs" /\ (d > 1 \/ NotAveraged) }

\* an ERA object has been loaded
EraLoaded == driver = "era" /\ data # None

\* the object's shape is that of its own axes
ShapeOk(o) ==
    /\ Len(o.windspeed) = Len(o.lat)
    /\ \A i \in 1..Len(o.windspeed) : Len(o.windspeed[i]) = Len(o.lon)

\* every column of o holds, in every row, the value that `field` (on the
\* axis lonsin) has on the same meridian
PairedWith(o, lonsin, field) ==
    \A c \in 1..Len(o.lon) :
        \E j \in 1..Len(lonsin) :
            /\ SameMeridian(lonsin[j], o.lon[c])
            /\ \A i \in 1..Len(o.lat) : o.windspeed[i][c] = field[i][j]

\* the columns of o are those of `field`, each exactly once
Permuted(o, lonsin, field) ==
    /\ Len(o.lon) = Len(lonsin)
    /\ \A j \in 1..Len(lonsin) :
          Cardinality({ c \in 1..Len(o.lon) : o.lon[c] = lonsin[j]
                                               \/ o.lon[c] = lonsin[j] - 360 }) = 1

\* longitudes within -180..180, in increasing order
InMapRange(lons) ==
    /\ \A c \in 1..Len(lons) : -180 <= lons[c] /\ lons[c] <= 180
    /\ \A c \in 1..(Len(lons) - 1) : lons[c] < lons[c + 1]

\* every cell of the field `field` on the axis `lons` is 3.6 * sqrt(u^2 + v^2)
\* of the u and v that time slice t of the ERA file holds on its meridian
SliceShown(lons, field, t) ==
    \A i \in 1..Len(field), c \in 1..Len(lons) :
        \E j \in 1..Len(era_file.lon) :
            /\ SameMeridian(era_file.lon[j], lons[c])
            /\ IsSpeedOf(field[i][c], EraU(era_file, t, i, j),
                         EraV(era_file, t, i, j))

ShowsSlice(o, t) == SliceShown(o.lon, o.windspeed, t)

HasMeridian180(lonsin) == \E j \in 1..Len(lonsin) : lonsin[j] = 180

HasCyclicPoint(lonsin) == lonsin[Len(lonsin)] - lonsin[1] = 360

---------------------------------------------------------------------------
(* C1 *)

\* the ERA part of C1: every cell ERAJetStreamData.load stores is
\* 3.6 * sqrt(u^2 + v^2) of the u and v read for that cell's meridian
C1_EraSpeed == EraLoaded => ShowsSlice(data, data.year - 1979)

\* the GFS part of C1: the same of every cell GFSJetStreamData.load stores
C1_GfsSpeed ==
    \A d \in GfsAsLoaded :
        \A i \in 1..Len(streamdata[d].lat), c \in 1..Len(streamdata[d].lon) :
            \E j \in 1..Len(gfs_remote.lon) :
                /\ SameMeridian(gfs_remote.lon[j], streamdata[d].lon[c])
                /\ IsSpeedOf(streamdata[d].windspeed[i][c],
                             GfsU(gfs_remote, Url(d), i, j),
                             GfsV(gfs_remote, Url(d), i, j))

\* C1: for every loader and every grid cell, the wind speed stored after
\* load is 3.6 * sqrt(u^2 + v^2) of the u and v components read for that
\* cell (so that it depends on v as well as on u).
C1_WindSpeedIsMagnitude == C1_EraSpeed /\ C1_GfsSpeed

---------------------------------------------------------------------------
(* C4 *)

\* the shift of one loaded object, read against the axis and the unshifted
\* field it was loaded from
ShiftedWell(o, lonsin, field) ==
    /\ InMapRange(o.lon)
    /\ PairedWith(o, lonsin, field)

C4_Objects(only180) ==
    /\ EraLoaded /\ (only180 => HasMeridian180(era_file.lon)) =>
          ShiftedWell(data, era_file.lon, ERAField(era_file, data.year))
    /\ \A d \in GfsAsLoaded :
          (only180 => HasMeridian180(gfs_remote.lon)) =>
              ShiftedWell(streamdata[d], gfs_remote.lon,
                          GFSField(gfs_remote, Url(d)))

---------------------------------------------------------------------------
(* C5 *)

\* C5: in every state after a data object has been loaded (after either
\* load, after each accumulation and after the final division), its wind
\* speed field has the shape (number of latitudes, number of longitudes)
\* of its own lat and lon arrays.
C5_ShapeAligned ==
    /\ EraLoaded => ShapeOk(data)
    /\ driver = "gfs" => \A d \in 1..Len(streamdata) : ShapeOk(streamdata[d])

\* the averaged object, after the division, on a grid with the cyclic point
C5_Witness ==
    /\ driver = "gfs" /\ pc = "create_map"
    /\ Len(streamdata) = 16
    /\ HasCyclicPoint(gfs_remote.lon)

---------------------------------------------------------------------------
(* C2 *)

\* the file plot_era_average names after year y
EraFileName(y) == "output/" \o ToString(y) \o ".png"

EraTitle(y) == "December " \o ToString(y)

\* the files written are those of the years 1979 .. 1978 + n, one each, in
\* order
EraFilesUpTo(n) ==
    /\ Len(written) = n
    /\ \A m \in 1..n : written[m].name = EraFileName(1978 + m)

\* each file written shows the data of the year it is named after, under
\* the title of that year
EraFilesShowTheirYear ==
    \A m \in 1..Len(written) :
        /\ written[m].fig.title = EraTitle(1978 + m)
        /\ SliceShown(written[m].fig.lon, written[m].fig.mesh, m - 1)

\* C2: when no load, render or save step fails, plot_era_average ends
\* having written exactly one file for each year 1979..2013 (35 files),
\* each named output/<year>.png after the year of the data it shows, and
\* no other file.  Until then the run has written the files of the years
\* it has passed, no other, and once a year is loaded the steps that follow
\* can be taken.
C2_EraWritesEveryYear ==
    driver = "era" =>
        /\ pc = "done" =>
              failed = NoFailure /\ EraFilesUpTo(35) /\ EraFilesShowTheirYear
        /\ failed = NoFailure /\ pc # "done" =>
              /\ year \in 1979..2013
              /\ EraFilesUpTo(year - 1979 + (IF pc = "close" THEN 1 ELSE 0))
        /\ pc = "create_map" => ENABLED EraCreateMap
        /\ pc = "savefig" => ENABLED EraSavefig
        /\ pc = "close" => ENABLED EraClose

C2_Witness ==
    driver = "era" /\ pc = "done" /\ Len(written) = 35 /\ year = 2014

---------------------------------------------------------------------------
(* C3 *)

\* the name the log gives the step at a position of the driver
StepName(at) ==
    CASE at = "load" -> "load"
      [] at = "create_map" -> "render"
      [] at = "savefig" -> "save"
      [] OTHER -> at

\* C3: in plot_era_average, if the load, render or save of year y raises,
\* nothing catches it: the run has ended there, no step of a later year was
\* taken, the failed step did not complete (no file of a failed save), and
\* the files of the years before y are in place.
C3_EraFailureEndsRun ==
    driver = "era" /\ failed # NoFailure =>
        /\ pc = "raised"
        /\ \A n \in 1..Len(log) :
              /\ log[n][2] <= failed.at
              /\ log[n] # <<StepName(failed.step), failed.at>>
        /\ EraFilesUpTo(failed.at - 1979)

\* a save has failed after some years were written
C3_Witness ==
    /\ driver = "era" /\ pc = "raised"
    /\ failed.step = "savefig" /\ failed.at = 1990
    /\ Len(written) = 11

---------------------------------------------------------------------------
(* C6 *)

\* C6: once loaded, an object's lon, lat and windspeed change only by the
\* averaging of plot_gfs_average: rendering and saving change no object;
\* the averaging changes the windspeed of the first day's object alone.
C6_LoadedDataFrame ==
    [][ /\ (data' # data => pc = "load" /\ pc' = "create_map")
        /\ (pc \in {"create_map", "savefig", "close"} =>
               data' = data /\ streamdata' = streamdata)
        /\ \A d \in 1..Len(streamdata) :
              /\ d <= Len(streamdata')
              /\ streamdata'[d].lon = streamdata[d].lon
              /\ streamdata'[d].lat = streamdata[d].lat
              /\ streamdata'[d].url = streamdata[d].url
              /\ (d > 1 => streamdata'[d].windspeed = streamdata[d].windspeed)
              /\ (streamdata'[d].windspeed # streamdata[d].windspeed
                     => pc = "accumulate")
      ]_vars

\* the averaging has changed the first day's windspeed, and the map of it
\* is drawn
C6_Witness ==
    /\ driver = "gfs" /\ pc = "done"
    /\ streamdata[1].windspeed # GFSLoad(gfs_remote, Url(1)).windspeed
    /\ streamdata[2] = GFSLoad(gfs_remote, Url(2))

---------------------------------------------------------------------------
(* C7 *)

\* the sum over the days 1..d of the wind speed loaded for cell (i, c)
RECURSIVE SumLoaded(_, _, _)
SumLoaded(d, i, c) ==
    IF d = 0 THEN 0
    ELSE GFSLoad(gfs_remote, Url(d)).windspeed[i][c] + SumLoaded(d - 1, i, c)

\* C7: the field plot_gfs_average passes to create_map is, cell by cell, the
\* mean of the wind speeds loaded over the 16 days 1..16 of February 2014
\* (to the resolution of the model: the sum divided by 16, rounded down).
C7_MeanOfSixteenDays ==
    driver = "gfs" /\ mymap # None =>
        /\ mymap.fig.mesh = streamdata[1].windspeed
        /\ \A i \in 1..Len(mymap.fig.mesh) :
              \A c \in 1..Len(mymap.fig.mesh[i]) :
                 LET total == SumLoaded(16, i, c)
                 IN  /\ 16 * mymap.fig.mesh[i][c] <= total
                     /\ total < 16 * mymap.fig.mesh[i][c] + 16

\* the map of a field that is not zero everywhere has been made
C7_Witness ==
    /\ driver = "gfs" /\ mymap # None
    /\ \E i \in 1..Len(mymap.fig.mesh) :
          \E c \in 1..Len(mymap.fig.mesh[i]) : mymap.fig.mesh[i][c] > 0

---------------------------------------------------------------------------
(* C8 *)

\* the n-th step of a run of plot_era_average that does not fail
EraStep(n) ==
    << <<"load", "render", "save", "close">>[((n - 1) % 4) + 1],
       1979 + ((n - 1) \div 4) >>

\* C8: plot_era_average is strictly sequential: per year load, render,
\* save, close, the years in the order 1979, 1980, ..., 2013, the save of a
\* year before the load of the next, and never more than one figure open.
C8_EraSequential ==
    driver = "era" =>
        /\ Len(log) <= 140
        /\ \A n \in 1..Len(log) : log[n] = EraStep(n)
        /\ Len(figures) <= 1
        /\ (pc = "load" => figures = <<>>)

\* the second year is being rendered
C8_Witness ==
    /\ driver = "era" /\ pc = "savefig" /\ year = 1980
    /\ Len(figures) = 1

---------------------------------------------------------------------------
(* C9 *)

\* the years whose load has completed
EraYearsLoaded == { log[n][2] : n \in { m \in 1..Len(log) : log[m][1] = "load" } }

\* C9: ERAJetStreamData(year).load selects the time slice year - 1979; for
\* every year of the loop the index is in 0..34, never negative, distinct
\* for distinct years, and the year in the title and in the file name is
\* the year whose slice was selected.
C9_EraSliceOfYear ==
    driver = "era" =>
        /\ \A y \in EraYearsLoaded :
              /\ ERASliceIndex(y) \in 0..34
              /\ ERASliceIndex(y) = y - 1979
              /\ \A z \in EraYearsLoaded : ERASliceIndex(y) = ERASliceIndex(z) => y = z
        /\ EraLoaded =>
              /\ ShowsSlice(data, data.year - 1979)
              /\ (pc \in {"create_map", "savefig", "close"} => data.year = year)
        /\ pc \in {"savefig", "close"} =>
              /\ mymap.fig.title = EraTitle(data.year)
              /\ mymap.fig.mesh = data.windspeed
              /\ mymap.fig.lon = data.lon
        /\ pc = "close" =>
              /\ written[Len(written)].name = EraFileName(data.year)
              /\ written[Len(written)].fig = mymap.fig

\* the last year of the loop has been loaded and saved
C9_Witness ==
    /\ driver = "era" /\ pc = "close" /\ year = 2013
    /\ data.year = 2013 /\ Len(written) = 35

---------------------------------------------------------------------------
(* C10 *)

\* the n-th step of a run of plot_gfs_average that does not fail
GfsStep(n) ==
    CASE n <= 16 -> <<"load", n>>
      [] n > 16 /\ n <= 31 -> <<"accumulate", n - 15>>
      [] n = 32 -> <<"divide", 16>>
      [] n = 33 -> <<"render", 0>>
      [] OTHER -> <<"save", 0>>

\* C10: in plot_gfs_average all 16 loads complete before any averaging,
\* rendering or saving; output/gfs.png is written at most once and only
\* after 16 loads; if a load fails the run has ended with no file written
\* and no later day loaded.
C10_GfsLoadsFirst ==
    driver = "gfs" =>
        /\ Len(log) <= 34
        /\ \A n \in 1..Len(log) : log[n] = GfsStep(n)
        /\ Len(written) <= 1
        /\ \A m \in 1..Len(written) :
              /\ written[m].name = "output/gfs.png"
              /\ Len(streamdata) = 16
              /\ Len(log) = 34
        /\ failed.step = "load" =>
              /\ pc = "raised"
              /\ written = <<>>
              /\ Len(streamdata) = failed.at - 1
              /\ \A n \in 1..Len(log) : log[n][1] = "load" /\ log[n][2] < failed.at

\* the load of a day in the middle has failed
C10_Witness ==
    /\ driver = "gfs" /\ pc = "raised"
    /\ failed = [step |-> "load", at |-> 9]
    /\ Len(streamdata) = 8

====
